---- MODULE Spec2Model ----
(***************************************************************************)
(* Model of src/main.ts: the Yandex Tracker linker plugin.                 *)
(*                                                                         *)
(* A text is a sequence of one-character strings, so that the regular      *)
(* expressions and the string operations of the source are computed        *)
(* character by character.  Positions named as in the source (offset,      *)
(* cursor.line, cursor.ch) are 0-based; TLA+ sequences are 1-based.        *)
(***************************************************************************)
EXTENDS Integers, Sequences, FiniteSets, TLC

\* ------------------------------------------------------------------ bounds
\* Number of characters the user may type during one behaviour.
MaxEdits == 2
\* Number of times the user may invoke the convert-tracker-links command.
MaxCommands == 1
\* Number of pieces a document of the matcher's specification is made of.
MaxPieces == 3
\* Number of normalization passes run in a row over such a document.
MaxPasses == 2

\* ------------------------------------------------------------- characters
\* [A-Z] of taskRegex / newTaskRegex, restricted to the letters in use.
Upper == {"A", "B"}
\* \d of taskRegex, restricted to the digits in use.
Digit == {"1", "2", "9"}
\* \s of newTaskRegex, restricted to the white space in use.
WhiteSpace == {" ", "\n"}
\* Characters the user types in the model: the trigger character and a
\* plain letter.
TypedChars == {" ", "x"}

Min(a, b) == IF a < b THEN a ELSE b
Max(a, b) == IF a < b THEN b ELSE a

\* ---------------------------------------------------- JavaScript strings
\* String.prototype.slice(a, b) for 0 <= a, 0 <= b.
Slice(s, a, b) == SubSeq(s, Min(a, Len(s)) + 1, Min(b, Len(s)))

\* String.prototype.endsWith
EndsWith(s, suffix) ==
    /\ Len(suffix) <= Len(s)
    /\ SubSeq(s, Len(s) - Len(suffix) + 1, Len(s)) = suffix

\* 0-based index of the first occurrence of pat in s, or -1 (indexOf).
IndexOf(s, pat) ==
    LET hits == {i \in 0..(Len(s) - Len(pat)) : Slice(s, i, i + Len(pat)) = pat}
    IN  IF hits = {} THEN -1 ELSE CHOOSE i \in hits : \A j \in hits : i <= j

\* String.prototype.includes
Includes(s, pat) == IndexOf(s, pat) # -1

\* 1-based positions of the line breaks of s.
Breaks(s) == {i \in 1..Len(s) : s[i] = "\n"}

\* The k-th (1-based) line break of s.
BreakAt(s, k) == CHOOSE p \in Breaks(s) : Cardinality({q \in Breaks(s) : q < p}) = k - 1

\* String.prototype.split('\n'): always at least one line.
Split(s) ==
    LET n == Cardinality(Breaks(s))
        from(k) == IF k = 1 THEN 1 ELSE BreakAt(s, k - 1) + 1
        to(k) == IF k = n + 1 THEN Len(s) ELSE BreakAt(s, k) - 1
    IN  [k \in 1..(n + 1) |-> SubSeq(s, from(k), to(k))]

\* Array.prototype.join('\n')
RECURSIVE Join(_)
Join(ls) ==
    IF Len(ls) = 0 THEN <<>>
    ELSE IF Len(ls) = 1 THEN ls[1]
    ELSE ls[1] \o <<"\n">> \o Join(Tail(ls))

\* End (1-based, exclusive) of the longest run of characters of class that
\* starts at 1-based position i.
RunEnd(s, i, class) ==
    CHOOSE j \in i..(Len(s) + 1) :
        /\ \A k \in i..(j - 1) : s[k] \in class
        /\ (j = Len(s) + 1 \/ s[j] \notin class)

\* GetSubstitution of String.prototype.replace for a string pattern: in the
\* replacement text "$$" stands for "$" and "$&" for the matched text.  The
\* other patterns ("$`", "$'", "$1") need characters that no text of the
\* model holds.
RECURSIVE GetSubstitution(_, _)
GetSubstitution(matched, repl) ==
    IF Len(repl) = 0 THEN <<>>
    ELSE IF Len(repl) >= 2 /\ repl[1] = "$" /\ repl[2] = "$"
         THEN <<"$">> \o GetSubstitution(matched, SubSeq(repl, 3, Len(repl)))
    ELSE IF Len(repl) >= 2 /\ repl[1] = "$" /\ repl[2] = "&"
         THEN matched \o GetSubstitution(matched, SubSeq(repl, 3, Len(repl)))
    ELSE <<repl[1]>> \o GetSubstitution(matched, Tail(repl))

\* String.prototype.replace(pat, repl) with a string pattern and a string
\* replacement: the first occurrence only.
StringReplace(s, pat, repl) ==
    LET at == IndexOf(s, pat)
    IN  IF at = -1 THEN s
        ELSE Slice(s, 0, at) \o GetSubstitution(pat, repl)
                 \o Slice(s, at + Len(pat), Len(s))

\* ------------------------------------------------------------ the matcher
NoMatch == [found |-> FALSE]

\* newTaskRegex = /(.*?)\s*@([A-Z]+)(?= )/ tried with the match starting at
\* 0-based s and group 1 ending at 0-based k: group 1 holds no line break,
\* \s* takes the white space up to the "@", [A-Z]+ the whole run of capitals,
\* and the next character is a space.
NewTaskMatchAt(line, s, k) ==
    LET at == RunEnd(line, k + 1, WhiteSpace)
        e == RunEnd(line, at + 1, Upper)
    IN  /\ \A i \in (s + 1)..k : line[i] # "\n"
        /\ at <= Len(line) /\ line[at] = "@"
        /\ e > at + 1
        /\ e <= Len(line) /\ line[e] = " "

\* newTaskRegex with a greedy group 1: the last mention of the line.
newTaskRegex_Greedy(line) ==
    LET cands == {k \in 0..Len(line) : NewTaskMatchAt(line, 0, k)}
    IN  IF cands = {} THEN NoMatch
        ELSE LET k == CHOOSE a \in cands : \A b \in cands : a >= b
                 at == RunEnd(line, k + 1, WhiteSpace)
                 e == RunEnd(line, at + 1, Upper)
             IN  [found |-> TRUE,
                  index |-> 0,
                  fullMatch |-> SubSeq(line, 1, e - 1),
                  taskSummary |-> SubSeq(line, 1, k),
                  queueKey |-> SubSeq(line, at + 1, e - 1)]

\* newTaskRegex.exec(line): the leftmost start, and for it the shortest
\* group 1 (lazy quantifier); [fullMatch, taskSummary, queueKey] as
\* destructured in processText.
newTaskRegex(line) ==
    LET cands == {sk \in (0..Len(line)) \X (0..Len(line)) :
                     sk[1] <= sk[2] /\ NewTaskMatchAt(line, sk[1], sk[2])}
    IN  IF cands = {} THEN NoMatch
        ELSE LET s == CHOOSE a \in {sk[1] : sk \in cands} :
                          \A b \in {sk[1] : sk \in cands} : a <= b
                 k == CHOOSE a \in {sk[2] : sk \in {c \in cands : c[1] = s}} :
                          \A b \in {sk[2] : sk \in {c \in cands : c[1] = s}} : a <= b
                 at == RunEnd(line, k + 1, WhiteSpace)
                 e == RunEnd(line, at + 1, Upper)
             IN  [found |-> TRUE,
                  index |-> s,
                  fullMatch |-> SubSeq(line, s + 1, e - 1),
                  taskSummary |-> SubSeq(line, s + 1, k),
                  queueKey |-> SubSeq(line, at + 1, e - 1)]

\* taskRegex = /@([A-Z]+-\d+)(?= )/g tried at 1-based position i of s: the
\* 1-based exclusive end of the match, or 0 when there is none.
taskRegexEnd(s, i) ==
    IF ~(i <= Len(s) /\ s[i] = "@") THEN 0
    ELSE LET u == RunEnd(s, i + 1, Upper)
         IN  IF ~(u > i + 1 /\ u <= Len(s) /\ s[u] = "-") THEN 0
             ELSE LET d == RunEnd(s, u + 1, Digit)
                  IN  IF d > u + 1 /\ d <= Len(s) /\ s[d] = " " THEN d ELSE 0

\* A link whose URL lacks the base URL.
Link_WithoutBase(taskId, baseURL) ==
    <<"[">> \o taskId \o <<"]", "(">> \o taskId \o <<")">>

\* `[${taskId}](${trackerBaseURL}${taskId})`
Link(taskId, baseURL) ==
    <<"[">> \o taskId \o <<"]", "(">> \o baseURL \o taskId \o <<")">>

\* new RegExp(`\\[${taskId}\\]\\(${trackerBaseURL}${taskId}\\)`): the
\* brackets are escaped, the task id holds only capitals, "-" and digits,
\* and the base URL is taken as a pattern, in which "." stands for any
\* character but a line break.
PatternChar(p, c) == IF p = "." THEN c # "\n" ELSE p = c

\* urlPattern.test(line)
urlPatternTest(taskId, baseURL, line) ==
    LET pat == Link(taskId, baseURL)
        \* positions of pat that come from the base URL
        fromBase(i) == i > Len(taskId) + 3 /\ i <= Len(taskId) + 3 + Len(baseURL)
    IN  \E at \in 0..(Len(line) - Len(pat)) :
            \A i \in 1..Len(pat) :
                IF fromBase(i) THEN PatternChar(pat[i], line[at + i])
                ELSE pat[i] = line[at + i]

\* The replacer function of the normalization, lines 355-369: fullMatch and
\* taskId are the match, offset its 0-based position in the text being
\* replaced; content is the text read at the start of the pass.
Replacer(fullMatch, taskId, offset, content, baseURL) ==
    IF EndsWith(Slice(content, Max(0, offset - 3), offset), <<"]", "(">>)
    THEN fullMatch
    ELSE LET lines == Split(content)
             currentLineIndex == Len(Split(Slice(content, 0, offset))) - 1
             currentLine == lines[currentLineIndex + 1]
         IN  IF urlPatternTest(taskId, baseURL, currentLine)
             THEN fullMatch
             ELSE Link(taskId, baseURL)

\* A replace that stops after the first match (taskRegex without its g flag).
ReplaceFrom_FirstOnly(updatedContent, i, content, baseURL) ==
    LET hits == {j \in i..Len(updatedContent) : taskRegexEnd(updatedContent, j) # 0}
    IN  IF hits = {} THEN SubSeq(updatedContent, i, Len(updatedContent))
        ELSE LET j == CHOOSE a \in hits : \A b \in hits : a <= b
                 d == taskRegexEnd(updatedContent, j)
             IN  SubSeq(updatedContent, i, j - 1)
                     \o Replacer(SubSeq(updatedContent, j, d - 1),
                                 SubSeq(updatedContent, j + 1, d - 1),
                                 j - 1, content, baseURL)
                     \o SubSeq(updatedContent, d, Len(updatedContent))

\* updatedContent.replace(taskRegex, replacer) from 1-based position i on.
RECURSIVE ReplaceFrom(_, _, _, _)
ReplaceFrom(updatedContent, i, content, baseURL) ==
    IF i > Len(updatedContent) THEN <<>>
    ELSE LET d == taskRegexEnd(updatedContent, i)
         IN  IF d = 0
             THEN <<updatedContent[i]>>
                      \o ReplaceFrom(updatedContent, i + 1, content, baseURL)
             ELSE Replacer(SubSeq(updatedContent, i, d - 1),
                           SubSeq(updatedContent, i + 1, d - 1),
                           i - 1, content, baseURL)
                      \o ReplaceFrom(updatedContent, d, content, baseURL)

\* Lines 355-369: the bare-reference normalization of updatedContent.
Normalize(updatedContent, content, baseURL) ==
    ReplaceFrom(updatedContent, 1, content, baseURL)

\* ------------------------------------------------------- the remote call
JNull == [type |-> "null", key |-> <<>>, items |-> <<>>]
\* An object; key = <<>> stands for a missing (or empty) key member.
JObject(k) == [type |-> "object", key |-> k, items |-> <<>>]
JArray(objs) == [type |-> "array", key |-> <<>>, items |-> objs]

\* The key the tracker assigns to an issue created in queue q.
ServerKey(q) == q \o <<"-", "9">>

\* No response received (yet).
NoResponse == [kind |-> "none", status |-> 0, json |-> JNull]

\* What requestUrl can come back with for a request to queue q: a transport
\* error, or a status and a JSON body.
Responses(q) ==
    {[kind |-> "error", status |-> 0, json |-> JNull]}
    \cup [kind : {"http"}, status : {200, 201},
          json : {JNull, JObject(ServerKey(q)), JObject(<<>>), JArray(<<>>),
                  JArray(<<JObject(ServerKey(q))>>),
                  JArray(<<JObject(<<>>), JObject(ServerKey(q))>>)}]

\* Any status taken as success.
StatusCreated_Any(status) == TRUE

\* Line 256: the status that signals success.
StatusCreated(status) == status = 201

\* The body read as it is, also when it is an array.
responseData_NoArray(json) == json

\* Line 260: Array.isArray(response.json) ? response.json[0] : response.json
\* (the first element of an empty array is undefined, here JNull).
responseData(json) ==
    IF json.type = "array"
    THEN IF Len(json.items) = 0 THEN JNull ELSE json.items[1]
    ELSE json

\* createTask, lines 245-274: the key of the created issue, or a failure
\* (the exception rethrown at line 273).
createTask(resp) ==
    IF resp.kind = "error" THEN [ok |-> FALSE, key |-> <<>>]
    ELSE IF ~StatusCreated(resp.status) THEN [ok |-> FALSE, key |-> <<>>]
    ELSE IF responseData(resp.json).type = "null" \/ responseData(resp.json).key = <<>>
         THEN [ok |-> FALSE, key |-> <<>>]
    ELSE [ok |-> TRUE, key |-> responseData(resp.json).key]

\* ------------------------------------------------------- the confirmation
NoResult == [settled |-> FALSE, confirmed |-> FALSE, fields |-> "none"]
\* Lines 138-145: the value the Create button resolves with.
CreateResult == [settled |-> TRUE, confirmed |-> TRUE, fields |-> "edited"]
\* Lines 126-133 and 154-161: the value Cancel and onClose resolve with.
CancelResult == [settled |-> TRUE, confirmed |-> FALSE, fields |-> "empty"]

\* A promise that takes the last value it is resolved with.
resolvePromise_LastWins(result, value) == value

\* resolvePromise(value): a promise keeps the first value it is settled with.
resolvePromise(result, value) == IF result.settled THEN result ELSE value

\* An onClose that leaves the promise alone.
onClose_NoResolve(result) == result

\* onClose, lines 150-164: resolvePromise is always set, so it is called.
onClose(result) == resolvePromise(result, CancelResult)

\* ------------------------------------------------------------- the editor
\* 0-based offset in text of the position (line, ch).
OffsetOf(text, pos) ==
    (IF pos.line = 0 THEN 0 ELSE BreakAt(text, pos.line)) + pos.ch

\* The host inserts the typed character c at the cursor.
InsertAt(text, pos, c) ==
    Slice(text, 0, OffsetOf(text, pos)) \o <<c>>
        \o Slice(text, OffsetOf(text, pos), Len(text))

\* editor.getLine(n)
getLine(text, n) == Split(text)[n + 1]

\* The cursor at the end of 0-based line n of text.
EndOfLine(text, n) == [line |-> n, ch |-> Len(getLine(text, n))]

\* Line 197: the character before the cursor, <<>> at the start of a line.
charBeforeCursor(text, pos) ==
    IF pos.ch > 0 THEN Slice(getLine(text, pos.line), pos.ch - 1, pos.ch) ELSE <<>>

\* Where the host leaves the cursor after editor.setValue: at the start of
\* the document.
CursorAfterSetValue == [line |-> 0, ch |-> 0]

\* ------------------------------------------------------------------ state
VARIABLES
    editorValue,     \* the host document (editor.getValue / setValue)
    editorCursor,    \* the host cursor (editor.getCursor / setCursor)
    settings,        \* this.settings: apiToken, orgId, trackerBaseURL
    isProcessing,    \* this.isProcessing, the lock
    pc,              \* where the pass is: "Idle", "AwaitingConfirmation" (the
                     \* await of line 320), "Creating" (the await of line 326)
    cursor,          \* processText's const cursor (line 301)
    content,         \* processText's const content (line 302)
    updatedContent,  \* processText's let updatedContent (line 303)
    currentLine,     \* processText's const currentLine (line 307)
    fullMatch,       \* newTaskMatch[0] (line 311)
    taskSummary,     \* newTaskMatch[1] (line 311)
    queueKey,        \* newTaskMatch[2] (line 311)
    response,        \* createTask's const response (line 245)
    taskId,          \* processText's const taskId (line 326)
    newLine,         \* processText's const newLine (line 334)
    modal,           \* the ConfirmationModal: open, its promise's result, and
                     \* what the user closed it by
    modalsOpened,    \* number of modal.open() calls so far
    requestsSent,    \* number of requestUrl calls so far
    setValueCalls,   \* number of editor.setValue calls so far
    outcome,         \* how the last pass ended
    changePending,   \* an editor-change event caused by editor.setValue is
                     \* still to be delivered
    edits,           \* characters typed so far
    commands         \* command invocations so far

editor == <<editorValue, editorCursor>>
locals == <<cursor, content, updatedContent, currentLine, fullMatch,
            taskSummary, queueKey, response, taskId, newLine>>
effects == <<modalsOpened, requestsSent, setValueCalls>>
vars == <<editorValue, editorCursor, settings, isProcessing, pc, cursor,
          content, updatedContent, currentLine, fullMatch, taskSummary,
          queueKey, response, taskId, newLine, modal, modalsOpened, requestsSent,
          setValueCalls, outcome, changePending, edits, commands>>

\* DEFAULT_SETTINGS.trackerBaseURL is 'https://tracker.yandex.ru/': a
\* scheme, a host with dots in it and a trailing slash; shortened here.
trackerBaseURL == <<"u", ".", "/">>

\* The documents a behaviour may start from.
InitDocs ==
    { <<"x", " ", "@", "A">>,
      <<"@", "A">>,
      <<"$", "$", " ", "@", "A">>,
      <<"x", " ", "@", "A", "-", "1">>,
      <<"@", "B", "-", "2", " ", "\n", "x", " ", "@", "A">>,
      <<"x", " ", "@", "A", " ", "\n", "]", "(", "@", "B", "-", "2", " ">>,
      <<"]", "(", "@", "A", "-", "1">>,
      <<"x">>,
      <<"]", "(", " ", "@", "A">>,
      <<"x", " ", "@", "A", " ", "\n", "@", "B", "-", "2", " ", "x", "x", "x",
        "]", "(">>,
      <<"@", "A", " ", "\n", "@", "B", "-", "2", " ", "\n",
        "[", "B", "-", "2", "]", "(", "u", ".", "/", "B", "-", "2", ")">>,
      <<"[", "A", "-", "1", "]", "(", "u", "x", "/", "A", "-", "1", ")", " ",
        "@", "A", "-", "1">> }

\* The positions the cursor may start at: the end of a line, or right after
\* a space.
InitCursors(text) ==
    {EndOfLine(text, n) : n \in 0..(Len(Split(text)) - 1)}
    \cup {pos \in [line : 0..(Len(Split(text)) - 1), ch : 1..Len(text)] :
              /\ pos.ch <= Len(getLine(text, pos.line))
              /\ getLine(text, pos.line)[pos.ch] = " "}

Init ==
    /\ editorValue \in InitDocs
    /\ editorCursor \in InitCursors(editorValue)
    /\ settings \in [apiToken : {<<>>, <<"t">>}, orgId : {<<>>, <<"o">>},
                     trackerBaseURL : {trackerBaseURL}]
    /\ isProcessing = FALSE
    /\ pc = "Idle"
    /\ cursor = [line |-> 0, ch |-> 0]
    /\ content = <<>>
    /\ updatedContent = <<>>
    /\ currentLine = <<>>
    /\ fullMatch = <<>>
    /\ taskSummary = <<>>
    /\ queueKey = <<>>
    /\ response = NoResponse
    /\ taskId = <<>>
    /\ newLine = <<>>
    /\ modal = [open |-> FALSE, result |-> NoResult, closedBy |-> "none"]
    /\ modalsOpened = 0
    /\ requestsSent = 0
    /\ setValueCalls = 0
    /\ outcome = "none"
    /\ changePending = FALSE
    /\ edits = 0
    /\ commands = 0

\* ------------------------------------------------------------ processText
\* A lock that is never seen as held.
LockHeld_Never == FALSE

\* Line 298 and line 199: the lock is held.
LockHeld == isProcessing

\* Line 199: the entry guard of the editor-change handler.
TriggerAccepted(text, pos) ==
    ~LockHeld /\ charBeforeCursor(text, pos) = <<" ">>

\* A detection that does not look for link markup on the line.
IsNewTask_IgnoringLinks(match, line) == match.found

\* Line 310: the active line holds a new-task mention and no link markup.
IsNewTask(match, line) == match.found /\ ~Includes(line, <<"]", "(">>)

\* Credentials taken as configured when either of the two is set.
CredentialsConfigured_Either(s) == s.apiToken # <<>> \/ s.orgId # <<>>

\* Line 312: this.settings.apiToken && this.settings.orgId
CredentialsConfigured(s) == s.apiToken # <<>> /\ s.orgId # <<>>

\* A pass that goes on whatever the result.
Confirmed_Always(result) == TRUE

\* Line 321: the pass goes on only when the result is confirmed.
Confirmed(result) == result.confirmed

\* Lines 334-337: currentLine.replace(fullMatch, `${taskSummary ? taskSummary
\* + ' ' : ''}[${taskId}](${trackerBaseURL}${taskId})`)
RewriteLine(line, full, summary, id, baseURL) ==
    StringReplace(line, full,
        (IF summary # <<>> THEN summary \o <<" ">> ELSE <<>>) \o Link(id, baseURL))

\* Lines 338-339: lines[cursor.line] = newLine; lines.join('\n')
ReplaceLine(text, n, line) == Join([Split(text) EXCEPT ![n + 1] = line])

\* A pass that always writes.
ShouldWrite_Always(before, after) == TRUE

\* Line 371: the document is written only when the text changed.
ShouldWrite(before, after) == before # after

\* A write that leaves the cursor where setValue put it.
CursorAfterWrite_NotRestored(saved) == CursorAfterSetValue

\* Lines 372-373: setValue moves the cursor, setCursor(cursor) puts it back.
CursorAfterWrite(saved) == saved

\* A pass that writes the rewritten line before the normalization and
\* writes again when the normalization changed the text.
Finish_TwoCommits(value, pos, pending, cont, upd, saved, how) ==
    LET norm == Normalize(upd, cont, settings.trackerBaseURL)
        writes == (IF upd # cont THEN 1 ELSE 0) + (IF norm # upd THEN 1 ELSE 0)
    IN  /\ updatedContent' = norm
        /\ IF writes > 0
           THEN /\ editorValue' = norm
                /\ editorCursor' = CursorAfterWrite(saved)
                /\ setValueCalls' = setValueCalls + writes
                /\ changePending' \in (IF pending THEN {TRUE} ELSE BOOLEAN)
           ELSE /\ editorValue' = value
                /\ editorCursor' = pos
                /\ setValueCalls' = setValueCalls
                /\ changePending' = pending
        /\ isProcessing' = FALSE
        /\ pc' = "Idle"
        /\ outcome' = how

\* Lines 355-377, reached with the editor at (value, pos), the text read at
\* the start of the pass cont, the text computed so far upd and the cursor
\* read at the start of the pass saved: normalization, the write when the
\* text changed, and the release of the lock.  pending tells whether an
\* editor-change event of an earlier write is still to be delivered.  The
\* host delivers the event of this write either during setValue, where the
\* handler of line 199 finds the lock held and drops it, or later.
Finish(value, pos, pending, cont, upd, saved, how) ==
    LET norm == Normalize(upd, cont, settings.trackerBaseURL)
    IN  /\ updatedContent' = norm
        /\ IF ShouldWrite(cont, norm)
           THEN /\ editorValue' = norm
                /\ editorCursor' = CursorAfterWrite(saved)
                /\ setValueCalls' = setValueCalls + 1
                /\ changePending' \in (IF pending THEN {TRUE} ELSE BOOLEAN)
           ELSE /\ editorValue' = value
                /\ editorCursor' = pos
                /\ setValueCalls' = setValueCalls
                /\ changePending' = pending
        /\ isProcessing' = FALSE
        /\ pc' = "Idle"
        /\ outcome' = how

\* processText up to its first await or its end (lines 297-320, 347-377),
\* called with the editor at (value, pos); pending as for Finish.
processText(value, pos, pending) ==
    IF LockHeld
    THEN /\ editorValue' = value
         /\ editorCursor' = pos
         /\ changePending' = pending
         /\ UNCHANGED <<isProcessing, pc, locals, modal, effects, outcome>>
    ELSE LET line == getLine(value, pos.line)
             match == newTaskRegex(line)
         IN  /\ cursor' = pos
             /\ content' = value
             /\ currentLine' = line
             /\ response' = NoResponse
             /\ taskId' = <<>>
             /\ newLine' = <<>>
             /\ IF IsNewTask(match, line)
                THEN /\ fullMatch' = match.fullMatch
                     /\ taskSummary' = match.taskSummary
                     /\ queueKey' = match.queueKey
                     /\ updatedContent' = value
                     /\ editorValue' = value
                     /\ editorCursor' = pos
                     /\ changePending' = pending
                     /\ UNCHANGED <<requestsSent, setValueCalls>>
                     /\ IF CredentialsConfigured(settings)
                        THEN /\ modal' = [open |-> TRUE, result |-> NoResult,
                                       closedBy |-> "none"]
                             /\ modalsOpened' = modalsOpened + 1
                             /\ isProcessing' = TRUE
                             /\ pc' = "AwaitingConfirmation"
                             /\ outcome' = "pending"
                        ELSE /\ UNCHANGED <<modal, modalsOpened>>
                             /\ isProcessing' = FALSE
                             /\ pc' = "Idle"
                             /\ outcome' = "ConfigurationMissing"
                ELSE /\ fullMatch' = <<>>
                     /\ taskSummary' = <<>>
                     /\ queueKey' = <<>>
                     /\ UNCHANGED <<modal, modalsOpened, requestsSent>>
                     /\ Finish(value, pos, pending, value, value, pos, "NoNewTask")

\* --------------------------------------------------------------- actions
\* The user types c at the cursor; the host delivers editor-change and the
\* handler of lines 194-202 runs.
EditorChange(c) ==
    /\ edits < MaxEdits
    /\ edits' = edits + 1
    /\ LET value == InsertAt(editorValue, editorCursor, c)
           pos == [editorCursor EXCEPT !.ch = @ + 1]
       IN  IF TriggerAccepted(value, pos)
           THEN processText(value, pos, changePending)
           ELSE /\ editorValue' = value
                /\ editorCursor' = pos
                /\ UNCHANGED <<isProcessing, pc, locals, modal, effects, outcome,
                               changePending>>
    /\ UNCHANGED <<settings, commands>>

\* The user invokes convert-tracker-links (lines 184-190).
Command ==
    /\ commands < MaxCommands
    /\ commands' = commands + 1
    /\ processText(editorValue, editorCursor, changePending)
    /\ UNCHANGED <<settings, edits>>

\* The host delivers the editor-change event of an earlier setValue call
\* after that call has returned; the handler of lines 194-202 runs.
SelfChange ==
    /\ changePending
    /\ IF TriggerAccepted(editorValue, editorCursor)
       THEN processText(editorValue, editorCursor, FALSE)
       ELSE /\ changePending' = FALSE
            /\ UNCHANGED <<editor, isProcessing, pc, locals, modal, effects,
                           outcome>>
    /\ UNCHANGED <<settings, edits, commands>>

\* processText from the await of line 320 on (lines 320-333): it stays
\* suspended until the modal's promise is settled, and resumes with the
\* value the promise was settled with.
AfterConfirmation(result) ==
    /\ IF ~result.settled
       THEN UNCHANGED <<requestsSent, pc, isProcessing, outcome>>
       ELSE IF Confirmed(result)
            THEN /\ requestsSent' = requestsSent + 1
                 /\ pc' = "Creating"
                 /\ UNCHANGED <<isProcessing, outcome>>
            ELSE /\ isProcessing' = FALSE
                 /\ pc' = "Idle"
                 /\ outcome' = "Cancelled"
                 /\ UNCHANGED requestsSent
    /\ UNCHANGED <<editor, locals, modalsOpened, setValueCalls, changePending>>

\* The user presses Create (lines 137-147): the promise is resolved, the
\* modal closed (which runs onClose), and the pass resumes.
ClickCreate ==
    /\ pc = "AwaitingConfirmation" /\ modal.open
    /\ LET result == onClose(resolvePromise(modal.result, CreateResult))
       IN  /\ modal' = [open |-> FALSE, result |-> result,
                        closedBy |-> "Create"]
           /\ AfterConfirmation(result)
    /\ UNCHANGED <<settings, edits, commands>>

\* The user presses Cancel (lines 125-135).
ClickCancel ==
    /\ pc = "AwaitingConfirmation" /\ modal.open
    /\ LET result == onClose(resolvePromise(modal.result, CancelResult))
       IN  /\ modal' = [open |-> FALSE, result |-> result,
                        closedBy |-> "Cancel"]
           /\ AfterConfirmation(result)
    /\ UNCHANGED <<settings, edits, commands>>

\* The user dismisses the modal (Escape): only onClose runs (lines 150-164).
Dismiss ==
    /\ pc = "AwaitingConfirmation" /\ modal.open
    /\ LET result == onClose(modal.result)
       IN  /\ modal' = [open |-> FALSE, result |-> result,
                        closedBy |-> "Escape"]
           /\ AfterConfirmation(result)
    /\ UNCHANGED <<settings, edits, commands>>

\* The remote call ends with resp; createTask returns or throws and the pass
\* resumes from the await of line 326 (lines 326-346, then 355-377).
RemoteResponse(resp) ==
    /\ pc = "Creating"
    /\ LET created == createTask(resp)
       IN  IF created.ok
           THEN LET line == RewriteLine(currentLine, fullMatch, taskSummary,
                                        created.key, settings.trackerBaseURL)
                IN  /\ response' = resp
                    /\ taskId' = created.key
                    /\ newLine' = line
                    /\ Finish(editorValue, editorCursor, changePending, content,
                              ReplaceLine(content, cursor.line, line),
                              cursor, "Rewritten")
                    /\ UNCHANGED <<cursor, content, currentLine, fullMatch,
                                   taskSummary, queueKey>>
           ELSE /\ response' = resp
                /\ isProcessing' = FALSE
                /\ pc' = "Idle"
                /\ outcome' = "Failed"
                /\ UNCHANGED <<editor, cursor, content, updatedContent,
                               currentLine, fullMatch, taskSummary, queueKey,
                               taskId, newLine, setValueCalls, changePending>>
    /\ UNCHANGED <<settings, modal, modalsOpened, requestsSent, edits, commands>>

Next ==
    \/ \E c \in TypedChars : EditorChange(c)
    \/ Command
    \/ SelfChange
    \/ ClickCreate
    \/ ClickCancel
    \/ Dismiss
    \/ \E resp \in Responses(queueKey) : RemoteResponse(resp)

Spec == Init /\ [][Next]_vars

\* The proviso under which a pass ends: an open modal is eventually
\* answered or closed, and an awaited remote call eventually completes or
\* fails.  The user's typing and the command are under no obligation.
FairSpec ==
    /\ Spec
    /\ WF_vars(ClickCreate \/ ClickCancel \/ Dismiss)
    /\ WF_vars(\E resp \in Responses(queueKey) : RemoteResponse(resp))

\* ------------------------------------------- the matcher on its own
\* The matcher is a pure function of a text.  Its specification starts from
\* the documents made of up to MaxPieces pieces and applies the
\* normalization of lines 355-369 (as on the no-new-task path, where the
\* text normalized is the text read) and the detection of lines 306-311.
Pieces ==
    { <<"@", "A", "-", "1", " ">>,
      <<"@", "A", "-", "1">>,
      <<"A", "-", "1", " ">>,
      <<"]", "(">>,
      Link(<<"A", "-", "1">>, trackerBaseURL) \o <<" ">>,
      <<"[", "A", "-", "1", "]", "(", "u", "x", "/", "A", "-", "1", ")", " ">>,
      <<"\n">>,
      <<"x", " ">>,
      <<"@", "A", " ">>,
      <<"A", " ">> }

RECURSIVE Docs(_)
Docs(n) ==
    IF n = 0 THEN {<<>>}
    ELSE Docs(n - 1) \cup {d \o p : d \in Docs(n - 1), p \in Pieces}

MatcherInit ==
    /\ editorValue \in Docs(MaxPieces)
    /\ editorCursor = [line |-> 0, ch |-> 0]
    /\ settings = [apiToken |-> <<"t">>, orgId |-> <<"o">>,
                   trackerBaseURL |-> trackerBaseURL]
    /\ isProcessing = FALSE
    /\ pc = "Idle"
    /\ cursor = [line |-> 0, ch |-> 0]
    /\ content = editorValue
    /\ updatedContent = editorValue
    /\ currentLine = <<>>
    /\ fullMatch = <<>>
    /\ taskSummary = <<>>
    /\ queueKey = <<>>
    /\ response = NoResponse
    /\ taskId = <<>>
    /\ newLine = <<>>
    /\ modal = [open |-> FALSE, result |-> NoResult, closedBy |-> "none"]
    /\ modalsOpened = 0
    /\ requestsSent = 0
    /\ setValueCalls = 0
    /\ outcome = "none"
    /\ changePending = FALSE
    /\ edits = 0
    /\ commands = 0

\* One normalization pass (lines 355-369) over the output of the last one;
\* commands counts the passes.
NormalizePass ==
    /\ outcome # "Scanned" /\ commands < MaxPasses
    /\ content' = updatedContent
    /\ updatedContent' = Normalize(updatedContent, updatedContent,
                                   settings.trackerBaseURL)
    /\ commands' = commands + 1
    /\ outcome' = "Normalized"
    /\ UNCHANGED <<editor, settings, isProcessing, pc, cursor, currentLine,
                   fullMatch, taskSummary, queueKey, response, taskId, newLine,
                   modal, effects, changePending, edits>>

\* New-task detection (lines 306-311) on line n of the document.
DetectNewTask(n) ==
    /\ outcome = "none"
    /\ n < Len(Split(content))
    /\ LET line == getLine(content, n)
           match == newTaskRegex(line)
       IN  /\ cursor' = [line |-> n, ch |-> 0]
           /\ currentLine' = line
           /\ fullMatch' = IF match.found THEN match.fullMatch ELSE <<>>
           /\ taskSummary' = IF match.found THEN match.taskSummary ELSE <<>>
           /\ queueKey' = IF match.found THEN match.queueKey ELSE <<>>
    /\ outcome' = "Scanned"
    /\ UNCHANGED <<editor, settings, isProcessing, pc, content, updatedContent,
                   response, taskId, newLine, modal, effects, changePending,
                   edits, commands>>

MatcherNext ==
    \/ NormalizePass
    \/ \E n \in 0..MaxPieces : DetectNewTask(n)

MatcherSpec == MatcherInit /\ [][MatcherNext]_vars

\* ------------------------------------------------------------------ claims
\* Number of occurrences of the character c in text.
Count(c, text) == Cardinality({i \in 1..Len(text) : text[i] = c})

\* A step in which a trigger arrives: a typed character or the command.
TriggerStep == edits' # edits \/ commands' # commands

\* C1: while a pass is in flight (the lock is held), a further trigger, an
\* editor-change event or the command, is dropped: the step changes nothing
\* of the pass, opens no modal, sends no request and makes no setValue
\* call; and the step that ends the pass opens no modal and sends no
\* request either (nothing was queued to be replayed).
C1_TriggersDroppedWhileLocked ==
    /\ [][(isProcessing /\ TriggerStep)
            => UNCHANGED <<isProcessing, pc, locals, modal, effects, outcome>>]_vars
    /\ [][(pc # "Idle" /\ pc' = "Idle")
            => (/\ modalsOpened' = modalsOpened
                /\ requestsSent' = requestsSent
                /\ ~modal'.open)]_vars

\* C1 witness: a space was typed while the pass was awaiting the
\* confirmation, and there is still the one modal.
C1_Witness ==
    /\ isProcessing /\ pc = "AwaitingConfirmation"
    /\ editorValue # content
    /\ charBeforeCursor(editorValue, editorCursor) = <<" ">>
    /\ modalsOpened = 1

\* C2 (as claimed): a letter typed while the pass was suspended is still in
\* the document after the pass has written its result: no write lowers the
\* number of typed letters in the document.
C2_EditsSurviveWrite ==
    [][setValueCalls' # setValueCalls
         => Count("x", editorValue') >= Count("x", editorValue)]_vars

\* The failures of the remote call, as the claims name them: a transport
\* error, a status other than 201, a body (or first element of an array
\* body) without a key.
CarriedKey(json) ==
    IF json.type = "array"
    THEN IF json.items = <<>> THEN <<>> ELSE json.items[1].key
    ELSE json.key

RemoteSuccess(resp) ==
    resp.kind = "http" /\ resp.status = 201 /\ CarriedKey(resp.json) # <<>>

\* A step in which the awaited remote call ends.
ResponseStep == pc = "Creating" /\ pc' = "Idle"

\* C3: when the remote call fails, the step that ends the pass makes no
\* setValue call, leaves the document and the cursor as they are and
\* releases the lock; and no step of a pass that stays in flight writes
\* the document, so nothing was written before the failure either.
C3_FailureLeavesDocument ==
    /\ [][(ResponseStep /\ ~RemoteSuccess(response'))
            => (/\ UNCHANGED <<editorValue, editorCursor, setValueCalls>>
                /\ ~isProcessing')]_vars
    /\ [][pc' # "Idle" => setValueCalls' = setValueCalls]_vars

\* C3 witness: a pass ended by a failed remote call, the document still
\* the text read at the start of the pass, bare reference included.
C3_Witness ==
    /\ outcome = "Failed" /\ ~RemoteSuccess(response)
    /\ ~isProcessing /\ editorValue = content /\ editorCursor = cursor
    /\ setValueCalls = 0
    /\ Normalize(content, content, settings.trackerBaseURL) # content

\* A step in which the modal is closed without the result being confirmed.
CancelStep == modal.open /\ ~modal'.open /\ ~modal'.result.confirmed

\* C4: when the user cancels or dismisses the modal, the pass sends no
\* request, makes no setValue call, leaves the document and the cursor as
\* they are, and releases the lock.
C4_CancelLeavesDocument ==
    [][CancelStep
         => (/\ UNCHANGED <<editorValue, editorCursor, setValueCalls, requestsSent>>
             /\ ~isProcessing' /\ pc' = "Idle")]_vars

\* C4 witness: after a cancelled pass the next trigger was accepted: a
\* second modal is open and no request was ever sent.
C4_Witness ==
    /\ modalsOpened = 2 /\ modal.open /\ requestsSent = 0
    /\ pc = "AwaitingConfirmation"

\* C5: a pass that starts on an active line with a new-task mention (and no
\* link markup) while the API token or the organization id is not set
\* opens no modal, sends no request, makes no setValue call and ends with
\* the lock released.
C5_MissingCredentials ==
    [][(/\ pc = "Idle" /\ TriggerStep
        /\ newTaskRegex(currentLine').found
        /\ ~Includes(currentLine', <<"]", "(">>)
        /\ (settings.apiToken = <<>> \/ settings.orgId = <<>>))
         => (/\ UNCHANGED <<modal, modalsOpened, requestsSent, setValueCalls>>
             /\ pc' = "Idle" /\ ~isProcessing')]_vars

\* C5 witness: a pass found a new-task mention, found the credentials
\* missing and ended.
C5_Witness ==
    /\ outcome = "ConfigurationMissing"
    /\ newTaskRegex(currentLine).found
    /\ settings.apiToken = <<>> \/ settings.orgId = <<>>
    /\ ~isProcessing /\ modalsOpened = 0 /\ editorValue = content

\* C6: a request is sent only by the step that resumes the pass from the
\* confirmation with the result of the Create button, one request in that
\* step; Creating is entered only that way; and no step taken while the
\* remote call is awaited or ending, a failure included, sends a request.
C6_RequestOnlyAfterAccept ==
    /\ [][(requestsSent' # requestsSent \/ (pc # "Creating" /\ pc' = "Creating"))
            => (/\ pc = "AwaitingConfirmation" /\ pc' = "Creating"
                /\ modal.open /\ modal'.result = CreateResult
                /\ requestsSent' = requestsSent + 1)]_vars
    /\ [][pc = "Creating" => requestsSent' = requestsSent]_vars

\* C6 witness: a failed creation, after which the one request of the pass
\* is still the only one.
C6_Witness ==
    /\ outcome = "Failed" /\ pc = "Idle"
    /\ requestsSent = 1 /\ modalsOpened = 1 /\ modal.result = CreateResult

\* C7: the remote call yields a task id, and the pass rewrites the line with
\* it, exactly when the status is 201 and the body (its first element when
\* it is an array) carries a key; the id is then that key.  In every other
\* case the pass ends as failed and rewrites nothing.
C7_CreateTaskSuccess ==
    [][ResponseStep
         => (IF RemoteSuccess(response')
             THEN /\ taskId' = CarriedKey(response'.json)
                  /\ outcome' = "Rewritten"
                  /\ setValueCalls' = setValueCalls + 1
             ELSE /\ taskId' = <<>>
                  /\ outcome' = "Failed"
                  /\ setValueCalls' = setValueCalls)]_vars

\* C7 witness: an array body whose first element carries the key made the
\* pass rewrite the line.
C7_Witness ==
    /\ outcome = "Rewritten" /\ response.json.type = "array"
    /\ taskId = ServerKey(queueKey)

\* The line C8 claims: the matched span (it starts the line) replaced by
\* the preceding text, a space when there is preceding text, and the link;
\* the rest of the line kept.
C8_ClaimedLine ==
    (IF taskSummary # <<>> THEN taskSummary \o <<" ">> ELSE <<>>)
        \o Link(taskId, settings.trackerBaseURL)
        \o SubSeq(currentLine, Len(fullMatch) + 1, Len(currentLine))

\* C8 (as claimed): after a successful creation the rewritten line is the
\* claimed one.
C8_RewrittenLine == outcome = "Rewritten" => newLine = C8_ClaimedLine

\* C9: a setValue call is made only by a pass whose computed text differs
\* from the text it read at its start, and what it writes is the computed
\* text.
C9_WriteOnlyWhenChanged ==
    [][setValueCalls' # setValueCalls
         => (content' # updatedContent' /\ editorValue' = updatedContent')]_vars

\* C9 witness: a first pass wrote the document, and a later pass, whose
\* computed text was the text it read, wrote nothing.
C9_Witness ==
    /\ outcome = "NoNewTask" /\ content = updatedContent
    /\ setValueCalls = 1 /\ editorValue = content

\* C10: a step that writes the document leaves the cursor at the position
\* the pass read at its start; a step that writes nothing leaves the cursor
\* where it is, or, when a character is typed, one column further.
C10_CursorRestored ==
    [][IF setValueCalls' # setValueCalls
       THEN editorCursor' = cursor'
       ELSE editorCursor' =
                IF edits' # edits THEN [editorCursor EXCEPT !.ch = @ + 1]
                ELSE editorCursor]_vars

\* C10 witness: the document was written by a pass resumed after the user
\* had typed on, and the cursor is back where the pass read it.
C10_Witness ==
    /\ outcome = "Rewritten" /\ setValueCalls = 1 /\ edits = 2
    /\ editorCursor = cursor /\ editorCursor # CursorAfterSetValue

\* ----------------------------------------------- claims about the matcher
\* The canonical link of the claims: [taskId](base_url + taskId).
ClaimedLink(id) ==
    <<"[">> \o id \o <<"]", "(">> \o trackerBaseURL \o id \o <<")">>

\* text[i..e-1] is shaped UPPERCASE "-" digits.
IdShape(text, i, e) ==
    \E u \in (i + 1)..(e - 2) :
        /\ \A k \in i..(u - 1) : text[k] \in Upper
        /\ text[u] = "-"
        /\ \A k \in (u + 1)..(e - 1) : text[k] \in Digit

\* The task tokens of text, each followed by a space: with marked, the
\* tokens that an "@" precedes (the span starts at the "@"); without, every
\* token (the span is the token).
Tokens(text, marked) ==
    LET starts == {i \in 1..Len(text) :
                      IF marked
                      THEN i > 1 /\ text[i - 1] = "@"
                      ELSE i = 1 \/ text[i - 1] \notin Upper}
    IN  UNION {{[at |-> IF marked THEN i - 1 ELSE i, id |-> i, end |-> e] :
                   e \in {n \in (i + 2)..Len(text) :
                             text[n] = " " /\ IdShape(text, i, n)}} :
               i \in starts}

\* The line of text that holds position i.
LineAt(text, i) == Split(text)[1 + Cardinality({q \in Breaks(text) : q < i})]

\* Guard (a): the two characters before the span are "](".
GuardA(text, tok) ==
    tok.at >= 3 /\ text[tok.at - 2] = "]" /\ text[tok.at - 1] = "("

\* Guard (b): the line of the token holds a link to the same task; with
\* exact, the canonical link itself, without, a text that the pattern built
\* at line 365 matches (the base URL read as a regular expression).
GuardB(text, tok, exact) ==
    LET id == SubSeq(text, tok.id, tok.end - 1)
    IN  IF exact
        THEN Includes(LineAt(text, tok.at), ClaimedLink(id))
        ELSE urlPatternTest(id, trackerBaseURL, LineAt(text, tok.at))

RECURSIVE Flatten(_, _)
Flatten(f, n) == IF n = 0 THEN <<>> ELSE Flatten(f, n - 1) \o f[n]

\* text with the span of every token of replaced replaced by the canonical
\* link of its task id, every other character kept.
ReplaceSpans(text, replaced) ==
    LET piece == [i \in 1..Len(text) |->
                    IF \E tok \in replaced : tok.at = i
                    THEN LET tok == CHOOSE r \in replaced : r.at = i
                         IN  ClaimedLink(SubSeq(text, tok.id, tok.end - 1))
                    ELSE IF \E tok \in replaced : tok.at < i /\ i < tok.end
                         THEN <<>>
                         ELSE <<text[i]>>]
    IN  Flatten(piece, Len(text))

\* The text the claims give for the normalization of text: every token
\* that no guard suppresses replaced.
ClaimedNormalize(text, marked, exact) ==
    ReplaceSpans(text, {tok \in Tokens(text, marked) :
                           ~GuardA(text, tok) /\ ~GuardB(text, tok, exact)})

\* C11: a second normalization pass over the output of a first one returns
\* it unchanged, and a document without a bare "@" reference, its
\* references being links already, is returned unchanged by the first.
C11_NormalizationIdempotent ==
    (outcome = "Normalized" /\ (commands >= 2 \/ Tokens(content, TRUE) = {}))
        => updatedContent = content

\* C11 witness: the first pass changed the document, which now holds a
\* link, and the second pass returned it as it was.
C11_Witness ==
    /\ outcome = "Normalized" /\ commands = 2
    /\ editorValue # content
    /\ Includes(content, ClaimedLink(<<"A", "-", "1">>))
    /\ updatedContent = content

PassNormalized == outcome \in {"NoNewTask", "Rewritten"}

\* The text that pass normalized: the text read at the start of the pass,
\* with the active line rewritten when a task was created (lines 338-339).
NormalizedText ==
    IF outcome = "Rewritten"
    THEN ReplaceLine(content, cursor.line, newLine)
    ELSE content

\* C13 (as claimed): on both paths, a task token that "](" immediately
\* precedes in the text being normalized is not altered: the result of the
\* pass is that text with some of the other tokens replaced by their links.
C13_LinkedTokenKept ==
    PassNormalized
        => \E replaced \in SUBSET {tok \in Tokens(NormalizedText, TRUE) :
                                      ~GuardA(NormalizedText, tok)} :
               updatedContent = ReplaceSpans(NormalizedText, replaced)

\* C16 (as claimed): on both paths, a token that "](" does not precede is
\* left unaltered exactly when its own line, in the text being normalized,
\* holds the link [taskId](base_url+taskId) of the same task id; a link on
\* another line suppresses nothing.
C16_GuardOnOwnLine ==
    PassNormalized
        => \E kept \in SUBSET {tok \in Tokens(NormalizedText, TRUE) :
                                  GuardA(NormalizedText, tok)} :
               updatedContent =
                   ReplaceSpans(NormalizedText,
                                {tok \in Tokens(NormalizedText, TRUE) :
                                    \/ tok \in kept
                                    \/ /\ ~GuardA(NormalizedText, tok)
                                       /\ ~GuardB(NormalizedText, tok, TRUE)})

\* The end (exclusive) of the run of capitals that starts at position i.
KeyEnd(line, i) ==
    CHOOSE e \in (i + 1)..(Len(line) + 1) :
        /\ \A k \in i..(e - 1) : line[k] \in Upper
        /\ e = Len(line) + 1 \/ line[e] \notin Upper

\* The new-task mentions of line, by the position of the queue key: a run
\* of capitals that a space follows; with marked, one that "@" precedes.
Mentions(line, marked) ==
    {i \in 1..Len(line) :
        /\ line[i] \in Upper
        /\ IF marked
           THEN i > 1 /\ line[i - 1] = "@"
           ELSE i = 1 \/ line[i - 1] \notin Upper
        /\ KeyEnd(line, i) <= Len(line)
        /\ line[KeyEnd(line, i)] = " "}

\* What the claims give for the detection on line: the first mention, with
\* the text before it less the separating white space.
ClaimedDetection(line, marked) ==
    IF Mentions(line, marked) = {}
    THEN [found |-> FALSE, precedingText |-> <<>>, queueKey |-> <<>>]
    ELSE LET i == CHOOSE a \in Mentions(line, marked) :
                      \A b \in Mentions(line, marked) : a <= b
             span == IF marked THEN i - 1 ELSE i
             k == CHOOSE n \in 0..(span - 1) :
                      /\ \A j \in (n + 1)..(span - 1) : line[j] \in WhiteSpace
                      /\ n = 0 \/ line[n] \notin WhiteSpace
         IN  [found |-> TRUE,
              precedingText |-> SubSeq(line, 1, k),
              queueKey |-> SubSeq(line, i, KeyEnd(line, i) - 1)]

\* What the detection of lines 306-308 returned.
Detected ==
    [found |-> fullMatch # <<>>,
     precedingText |-> taskSummary,
     queueKey |-> queueKey]

\* C14 (as claimed): detection on a line returns the first run of capitals
\* that a space follows, as (precedingText, queueKey), precedingText being
\* the text before it without the separating white space.
C14_FirstUppercaseToken ==
    outcome = "Scanned" => Detected = ClaimedDetection(currentLine, FALSE)

\* C14 (amended): detection on a line returns the first mention
\* "@" + capitals that a space follows, as (precedingText, queueKey): the
\* queue key without the "@", precedingText the text before the "@" without
\* the separating white space; later mentions of the line are not
\* resolved, and a line without such a mention yields nothing.
C14_FirstMarkedMention ==
    outcome = "Scanned" => Detected = ClaimedDetection(currentLine, TRUE)

\* C14 witness: on "x @A @A " the detection returned ("x", "A") and the
\* match ends with the first mention.
C14_Witness ==
    /\ outcome = "Scanned"
    /\ currentLine = <<"x", " ", "@", "A", " ", "@", "A", " ">>
    /\ taskSummary = <<"x">> /\ queueKey = <<"A">>
    /\ fullMatch = <<"x", " ", "@", "A">>

\* A step in which a pass starts: the command, a typed space, or the
\* delivery of the event of an earlier write with a space before the cursor,
\* in each case with the lock free.
PassStart ==
    /\ pc = "Idle"
    /\ \/ commands' # commands
       \/ /\ edits' # edits
          /\ content' = InsertAt(editorValue, editorCursor, " ")
          /\ cursor' = [editorCursor EXCEPT !.ch = @ + 1]
       \/ /\ changePending /\ UNCHANGED <<edits, commands>>
          /\ charBeforeCursor(editorValue, editorCursor) = <<" ">>

\* C15: a pass whose active line holds "](" opens no modal and sends no
\* request, whatever else the line holds, and goes directly to the
\* normalization: it ends in the same step, with the lock released and the
\* normalized text of the document as its result.
C15_LinkMarkupFirst ==
    [][(PassStart /\ Includes(currentLine', <<"]", "(">>))
         => (/\ UNCHANGED <<modal, modalsOpened, requestsSent>>
             /\ pc' = "Idle" /\ ~isProcessing'
             /\ outcome' = "NoNewTask"
             /\ updatedContent' = ClaimedNormalize(content', TRUE, FALSE))]_vars

\* C15 witness: a pass ended without a modal on an active line that holds
\* both "](" and a new-task mention, with the credentials set.
C15_Witness ==
    /\ outcome = "NoNewTask" /\ ~isProcessing
    /\ Includes(currentLine, <<"]", "(">>)
    /\ ClaimedDetection(currentLine, TRUE).found
    /\ settings.apiToken # <<>> /\ settings.orgId # <<>>
    /\ modalsOpened = 0 /\ requestsSent = 0

SelfEventStep ==
    /\ changePending /\ pc = "Idle" /\ UNCHANGED <<edits, commands>>
    /\ PassNormalized
    /\ editorValue = updatedContent /\ editorCursor = cursor

\* C18 (as claimed): the editor-change event of the pass's own write starts
\* no second resolution: the step that delivers it opens no modal, sends no
\* request and writes nothing, the document staying as the pass left it.
C18_NoSelfTrigger ==
    [][SelfEventStep => UNCHANGED <<effects, editorValue>>]_vars

\* C19 (as claimed): on a successful creation the rewritten line is written
\* to the document before the normalization runs, and a second write
\* follows only if the normalization changed the text: one setValue call
\* for the line, one more when the normalized text differs from the text
\* with the rewritten line.
C19_CommitBeforeNormalization ==
    [][(ResponseStep /\ outcome' = "Rewritten")
         => setValueCalls' = setValueCalls + 1
                + (IF updatedContent' # NormalizedText' THEN 1 ELSE 0)]_vars

\* C19 (amended): on a successful creation the rewritten line is put into
\* the text in memory only; the normalization runs over that text, and the
\* document is written once, after the normalization, with the normalized
\* text, the cursor being restored after that one write.
C19_SingleWriteAfterNormalization ==
    [][(ResponseStep /\ outcome' = "Rewritten")
         => (/\ setValueCalls' = setValueCalls + 1
             /\ editorValue' = updatedContent'
             /\ editorCursor' = cursor')]_vars

\* C19 witness: a task was created, the normalization changed another line
\* as well, and the document, holding both links, was written once.
C19_Witness ==
    /\ outcome = "Rewritten" /\ setValueCalls = 1
    /\ updatedContent # NormalizedText
    /\ editorValue = updatedContent /\ editorCursor = cursor
    /\ Includes(editorValue, ClaimedLink(taskId))
    /\ Includes(editorValue, ClaimedLink(<<"B", "-", "2">>))

\* A step in which the modal is closed.
CloseStep == modal.open /\ ~modal'.open

\* C20: the result of the confirmation is the value of the first user
\* action and the pass resumes with it once: the step that closes the modal
\* by Create settles it with confirmed = true and the edited fields, though
\* onClose resolves again, and the pass goes on to the remote call; Cancel
\* and dismissal settle it with confirmed = false and the pass ends; the
\* pass awaits exactly while the modal is open, and a settled result never
\* changes, only a new modal starts with a fresh one.
C20_FirstActionWins ==
    /\ [][CloseStep
            => (/\ modal'.closedBy = "Create"
                      => (modal'.result = CreateResult /\ pc' = "Creating")
                /\ modal'.closedBy \in {"Cancel", "Escape"}
                      => (modal'.result = CancelResult /\ pc' = "Idle")
                /\ modal'.closedBy \in {"Create", "Cancel", "Escape"})]_vars
    /\ [][modal'.result # modal.result
            => (CloseStep \/ (modal'.open /\ modal'.result = NoResult))]_vars
    /\ [](modal.open <=> pc = "AwaitingConfirmation")

\* C20 witness: the modal was closed by Create, onClose has run, the result
\* is still the confirmed one and the remote call is awaited.
C20_Witness ==
    /\ ~modal.open /\ modal.closedBy = "Create"
    /\ modal.result = CreateResult
    /\ onClose(modal.result) = CreateResult
    /\ pc = "Creating" /\ requestsSent = 1

====
